---- MODULE Spec2Model ----
(***************************************************************************)
(* Model of the Cyberpunk Settings UI (anacondy/3-CyperpunkSettings).      *)
(*                                                                         *)
(* Three programs live in the repository and are modelled side by side:    *)
(*   - src/unnamed/part_001: the App built on the module-level AudioEngine *)
(*     and the canvas ParticleBackground (SpecAudio, SpecApp, SpecField,           *)
(*     SpecParticle);                                                      *)
(*   - src/unnamed/part_002 and src/index.js: two versions of the App      *)
(*     built on the useSoundEngine hook (SpecHook).                        *)
(*                                                                         *)
(* Units.  AudioParam values (gains, frequencies, Q) are kept in           *)
(* thousandths, audio times in milliseconds, particle coordinates and      *)
(* velocities in hundredths of a pixel.                                    *)
(***************************************************************************)
EXTENDS Integers, Sequences, FiniteSets, TLC

VARIABLES
    \* --- platform (browser) ---
    audioApi,       \* window.AudioContext || window.webkitAudioContext exists
    \* --- part_001: AudioEngine singleton `audio` and the Web Audio graph ---
    audio,          \* fields of the AudioEngine instance (node ids, 0 = null)
    graph,          \* [ctxs, nodes]: every AudioContext / AudioNode constructed
    now,            \* audio.ctx.currentTime, ms
    \* --- part_001: App state ---
    booted, loading, view, settings, notification, burst,
    errors,         \* handlers that ended with an uncaught exception
    initCalls,      \* observation: audio.init() calls that returned (0, 1, or 2 for more)
    toggles,        \* observation: the last two direct toggleMute() calls, as the caller saw them
    \* --- part_001: one Particle of the ParticleBackground ---
    canvas,         \* [width, height], px
    mouseRef,       \* mouseRef.current: [x, y, active], px
    particle,       \* [x, y, vx, vy], hundredths of a px (per frame)
    frames,         \* update() steps taken
    \* --- part_001: the ParticleBackground component in the main view ---
    innerWidth,     \* window.innerWidth, px
    canvas2d,       \* canvas.getContext('2d') returns a context
    fieldMounted,   \* the component has been mounted
    particles,      \* particlesRef.current, run-length: <<[tag, n], ...>>,
                    \* tag 0 = baseline particle, k = particle of the k-th burst
    timers,         \* pending setTimeout callbacks
    clock,          \* wall clock, ms
    rafPending,     \* effect runs whose animate() has a frame callback pending
    animationFrameRef, \* animationFrameRef.current: the run whose handle it holds
    listeners,      \* <<event, run>>: window listeners attached
    cleanupOf,      \* the effect run whose cleanup React holds, 0 = none
    run,            \* effect runs so far
    bursts,         \* bursts triggered so far
    lastSplice,     \* observation: the last removal timer that fired
    stepsInFrame,   \* animate() runs since the latest frame callback began,
                    \* that callback's own run included
    \* --- part_002: the hook-based application ---
    hook,           \* the App and LoadingScreen components and their
                    \* useSoundEngine instances
    \* --- part_001: App's useSystemMonitor and LoadingScreen ---
    monitor,        \* the useSystemMonitor effect: its promises, interval and
                    \* battery listeners
    loader          \* the LoadingScreen: progress, interval, completion timers

engineVars == <<audioApi, audio, graph, now, booted, loading, view, settings,
                notification, burst, errors, initCalls, toggles>>

particleVars == <<canvas, mouseRef, particle, frames>>

fieldVars == <<innerWidth, canvas2d, fieldMounted, particles, timers, clock,
               rafPending, animationFrameRef, listeners, cleanupOf, run, bursts,
               lastSplice, stepsInFrame>>

systemVars == <<monitor, loader>>

vars == <<engineVars, particleVars, fieldVars, hook, systemVars>>

\* what the actions of one program leave alone
notSystem == <<particleVars, fieldVars, hook>>
notEngine == <<notSystem, systemVars>>
notParticle == <<engineVars, fieldVars, hook, systemVars>>
notHook == <<engineVars, particleVars, fieldVars, systemVars>>
\* (the field shares canvas with the particle, burst and errors with the App)
notField == <<audioApi, audio, graph, now, booted, loading, view, settings,
              notification, initCalls, toggles, mouseRef, particle, frames,
              hook, systemVars>>

-----------------------------------------------------------------------------
(* Bounds of the model *)

\* the audio clock advances in steps of TickMs, MaxTicks times at most
TickMs == 50
MaxTicks == 1
\* one-shot sounds (click / hover) synthesised in one run
MaxShots == 2
\* sound effects requested through the App after the boot click's own
MaxClicks == 1

\* slider positions tried (CyberSlider yields Math.round(pct), 0..100)
Levels == {0, 100}
\* (musicVol, sfxVol) arguments tried on setVolumes directly
VolumePairs == {<<50, 80>>, <<0, 100>>, <<100, 0>>}
\* Math.random() draws tried, in thousandths of [0, 1)
Randoms == {0, 999}

\* viewport widths and heights tried, px, one on each side of the 768 px
\* threshold
NarrowWidth == 500
WideWidth == 1024
Widths == {NarrowWidth, WideWidth}
ViewHeight == 300
\* update() steps followed for one particle
MaxFrames == 6
\* the wall clock advances in steps of FieldTickMs, MaxFieldTicks times at most
FieldTickMs == 200
MaxFieldTicks == 11
\* bursts triggered in one run
MaxBursts == 2
\* click, touchstart, keydown and focus events in one run of the hook-based
\* application
MaxGestures == 4
\* scan sounds of one loading screen
MaxScans == 1
\* ctx.currentTime values at which a sound of the hook-based application is
\* requested, ms
Times == {0, TickMs}
\* pointer positions tried, px
PointerSpots == {<<0, 0>>, <<400, 150>>}
\* burst directions tried, as (cos, sin) of the angle in thousandths, and
\* burst speeds, in hundredths of a px
Directions == {<<1000, 0>>, <<-1000, 0>>, <<0, -1000>>, <<600, 800>>}
Speeds == {500, 1999}

-----------------------------------------------------------------------------
(* Web Audio platform: AudioParam and AudioNode *)

Milli(n) == n * (10 * 100)

\* an AudioParam: its intrinsic value and the automation events scheduled on it
Param(v) == [value |-> v, events |-> <<>>]

setValueAtTime(p, v, t) ==
    [p EXCEPT !.events = Append(@, [op |-> "setValue", v |-> v, t |-> t, tc |-> 0])]
exponentialRampToValueAtTime(p, v, t) ==
    [p EXCEPT !.events = Append(@, [op |-> "expRamp", v |-> v, t |-> t, tc |-> 0])]
linearRampToValueAtTime(p, v, t) ==
    [p EXCEPT !.events = Append(@, [op |-> "linRamp", v |-> v, t |-> t, tc |-> 0])]
\* An exponential approach towards v starting at t with time constant tc.  The
\* timeline keeps the approach in force: an earlier approach is superseded
\* from t on, so only the most recent one is kept.
setTargetAtTime(p, v, t, tc) ==
    [p EXCEPT !.events = <<[op |-> "setTarget", v |-> v, t |-> t, tc |-> tc]>>]

\* the value a param is heading to: its last scheduled event, else its value
Target(p) == IF p.events = <<>> THEN p.value ELSE p.events[Len(p.events)].v
\* every value assigned to or scheduled on a param
ParamValues(p) == {p.value} \cup {p.events[i].v : i \in 1..Len(p.events)}

Destination == <<0, "in">>

Node(kind, ctx) ==
    [kind |-> kind, ctx |-> ctx, type |-> "",
     frequency |-> Param(CASE kind = "osc" -> Milli(440)
                           [] kind = "filter" -> Milli(350)
                           [] OTHER -> 0),
     gain |-> Param(IF kind = "gain" THEN Milli(1) ELSE 0),
     Q |-> Param(IF kind = "filter" THEN Milli(1) ELSE 0),
     outs |-> {}, started |-> FALSE, startAt |-> -1, stopAt |-> -1]

\* ctx.createGain() etc.: the new node gets the next id
create(g, kind, ctx) == [g EXCEPT !.nodes = Append(@, Node(kind, ctx))]
LastId(g) == Len(g.nodes)
connect(g, from, to) == [g EXCEPT !.nodes[from].outs = @ \cup {to}]
In(id) == <<id, "in">>

-----------------------------------------------------------------------------
(* part_001: AudioEngine *)

AUDIO_CONFIG ==
    [DRONE_FREQUENCY |-> Milli(50), FILTER_FREQUENCY |-> Milli(120),
     FILTER_Q |-> Milli(5), LFO_FREQUENCY |-> 200, LFO_GAIN |-> Milli(20),
     DRONE_GAIN |-> 50, CLICK_START_FREQ |-> Milli(1200),
     CLICK_END_FREQ |-> Milli(100), HOVER_BASE_FREQ |-> Milli(800),
     HOVER_VARIANCE |-> Milli(200)]

\* constructor()
NewAudioEngine ==
    [ctx |-> 0, masterGain |-> 0, musicGain |-> 0, sfxGain |-> 0,
     droneOsc |-> 0, droneGain |-> 0, isMuted |-> FALSE, initialized |-> FALSE]

\* A world is the engine together with the graph it has built.
World == [a |-> audio, g |-> graph]

\* startAmbience(): drone oscillator -> low-pass filter -> drone gain -> music
\* bus, the filter cutoff modulated by an LFO through lfoGain
startAmbience(w) ==
    IF w.a.ctx = 0 THEN w
    ELSE
    LET ctx == w.a.ctx
        g1 == create(w.g, "osc", ctx)
        droneOsc == LastId(g1)
        g2 == [g1 EXCEPT !.nodes[droneOsc].type = "sawtooth",
                         !.nodes[droneOsc].frequency.value = AUDIO_CONFIG.DRONE_FREQUENCY]
        g3 == create(g2, "filter", ctx)
        filter == LastId(g3)
        g4 == [g3 EXCEPT !.nodes[filter].type = "lowpass",
                         !.nodes[filter].frequency.value = AUDIO_CONFIG.FILTER_FREQUENCY,
                         !.nodes[filter].Q.value = AUDIO_CONFIG.FILTER_Q]
        g5 == create(g4, "osc", ctx)
        lfo == LastId(g5)
        g6 == [g5 EXCEPT !.nodes[lfo].type = "sine",
                         !.nodes[lfo].frequency.value = AUDIO_CONFIG.LFO_FREQUENCY]
        g7 == create(g6, "gain", ctx)
        lfoGain == LastId(g7)
        g8 == [g7 EXCEPT !.nodes[lfoGain].gain.value = AUDIO_CONFIG.LFO_GAIN]
        g9 == connect(connect(g8, lfo, In(lfoGain)), lfoGain, <<filter, "frequency">>)
        g10 == create(g9, "gain", ctx)
        droneGain == LastId(g10)
        g11 == [g10 EXCEPT !.nodes[droneGain].gain.value = AUDIO_CONFIG.DRONE_GAIN]
        g12 == connect(connect(connect(g11, droneOsc, In(filter)),
                               filter, In(droneGain)),
                       droneGain, In(w.a.musicGain))
        g13 == [g12 EXCEPT !.nodes[droneOsc].started = TRUE,
                           !.nodes[droneOsc].startAt = 0,
                           !.nodes[lfo].started = TRUE,
                           !.nodes[lfo].startAt = 0]
    IN  [a |-> [w.a EXCEPT !.droneOsc = droneOsc, !.droneGain = droneGain],
         g |-> g13]

\* `new AudioContext()` with no constructor on the platform: a TypeError
\* leaves init() before any field is assigned
initThrows(w) == ~w.a.initialized /\ ~audioApi

\* init() past its guard, on a platform that has the constructor; st is the
\* state the new context starts in
initBody(w, st) ==
    LET ctx == Len(w.g.ctxs) + 1
        g0 == [w.g EXCEPT !.ctxs = Append(@, st)]
        g1 == create(g0, "gain", ctx)
        masterGain == LastId(g1)
        g2 == connect(g1, masterGain, Destination)
        g3 == create(g2, "gain", ctx)
        musicGain == LastId(g3)
        g4 == connect(g3, musicGain, In(masterGain))
        g5 == create(g4, "gain", ctx)
        sfxGain == LastId(g5)
        g6 == connect(g5, sfxGain, In(masterGain))
    IN  startAmbience([a |-> [w.a EXCEPT !.ctx = ctx, !.masterGain = masterGain,
                                         !.musicGain = musicGain, !.sfxGain = sfxGain,
                                         !.initialized = TRUE],
                       g |-> g6])

init_NoGuard(w, st) == initBody(w, st)

\* init()
init(w, st) == IF w.a.initialized THEN w ELSE initBody(w, st)

setVolumes_Step(w, musicVol, sfxVol, t) ==
    IF ~w.a.initialized THEN w
    ELSE [w EXCEPT !.g.nodes[w.a.musicGain].gain.value = (musicVol * Milli(1)) \div 100,
                   !.g.nodes[w.a.sfxGain].gain.value = (sfxVol * Milli(1)) \div 100]

setVolumes_NoScale(w, musicVol, sfxVol, t) ==
    IF ~w.a.initialized THEN w
    ELSE [w EXCEPT !.g.nodes[w.a.musicGain].gain =
                        setTargetAtTime(@, musicVol * Milli(1), t, 100),
                   !.g.nodes[w.a.sfxGain].gain =
                        setTargetAtTime(@, sfxVol * Milli(1), t, 100)]

\* setVolumes(musicVol, sfxVol) at ctx.currentTime = t
setVolumes(w, musicVol, sfxVol, t) ==
    IF ~w.a.initialized THEN w
    ELSE [w EXCEPT !.g.nodes[w.a.musicGain].gain =
                        setTargetAtTime(@, (musicVol * Milli(1)) \div 100, t, 100),
                   !.g.nodes[w.a.sfxGain].gain =
                        setTargetAtTime(@, (sfxVol * Milli(1)) \div 100, t, 100)]

toggleMute_Set(w, t) ==
    IF ~w.a.initialized THEN w
    ELSE [w EXCEPT !.a.isMuted = TRUE,
                   !.g.nodes[w.a.masterGain].gain = setTargetAtTime(@, 0, t, 100)]

toggleMute_NoGuard(w, t) ==
    IF ~w.a.initialized THEN [w EXCEPT !.a.isMuted = ~w.a.isMuted]
    ELSE [w EXCEPT !.a.isMuted = ~w.a.isMuted,
                   !.g.nodes[w.a.masterGain].gain =
                        setTargetAtTime(@, IF ~w.a.isMuted THEN 0 ELSE Milli(1), t, 100)]

\* toggleMute() at ctx.currentTime = t: the state it leaves
toggleMute(w, t) ==
    IF ~w.a.initialized THEN w
    ELSE [w EXCEPT !.a.isMuted = ~w.a.isMuted,
                   !.g.nodes[w.a.masterGain].gain =
                        setTargetAtTime(@, IF ~w.a.isMuted THEN 0 ELSE Milli(1), t, 100)]

\* toggleMute(): the value it returns, given the state it leaves
toggleMuteReturn(w, after) == IF ~w.a.initialized THEN FALSE ELSE after.a.isMuted

playClickSound_OnMusicBus(w, t) ==
    IF ~w.a.initialized \/ w.a.isMuted THEN w
    ELSE
    LET g1 == create(w.g, "osc", w.a.ctx)
        osc == LastId(g1)
        g2 == create(g1, "gain", w.a.ctx)
        gain == LastId(g2)
        g3 == [g2 EXCEPT
                !.nodes[osc].type = "sawtooth",
                !.nodes[gain].gain =
                    exponentialRampToValueAtTime(setValueAtTime(@, 500, t), 10, t + 100)]
        g4 == connect(connect(g3, osc, In(gain)), gain, In(w.a.musicGain))
    IN  [w EXCEPT !.g = [g4 EXCEPT !.nodes[osc].started = TRUE,
                                   !.nodes[osc].startAt = t,
                                   !.nodes[osc].stopAt = t + 150]]

playClickSound_NoInitGuard(w, t) ==
    IF w.a.isMuted THEN w
    ELSE
    LET g1 == create(w.g, "osc", w.a.ctx)
        osc == LastId(g1)
        g2 == create(g1, "gain", w.a.ctx)
        gain == LastId(g2)
        g3 == [g2 EXCEPT
                !.nodes[osc].type = "sawtooth",
                !.nodes[gain].gain =
                    exponentialRampToValueAtTime(setValueAtTime(@, 500, t), 10, t + 100)]
        g4 == connect(connect(g3, osc, In(gain)), gain, In(w.a.sfxGain))
    IN  [w EXCEPT !.g = [g4 EXCEPT !.nodes[osc].started = TRUE,
                                   !.nodes[osc].startAt = t,
                                   !.nodes[osc].stopAt = t + 150]]

\* playClickSound() at ctx.currentTime = t
playClickSound(w, t) ==
    IF ~w.a.initialized \/ w.a.isMuted THEN w
    ELSE
    LET g1 == create(w.g, "osc", w.a.ctx)
        osc == LastId(g1)
        g2 == create(g1, "gain", w.a.ctx)
        gain == LastId(g2)
        g3 == [g2 EXCEPT
                !.nodes[osc].type = "sawtooth",
                !.nodes[osc].frequency =
                    exponentialRampToValueAtTime(
                        setValueAtTime(@, AUDIO_CONFIG.CLICK_START_FREQ, t),
                        AUDIO_CONFIG.CLICK_END_FREQ, t + 100),
                !.nodes[gain].gain =
                    exponentialRampToValueAtTime(setValueAtTime(@, 500, t), 10, t + 100)]
        g4 == connect(connect(g3, osc, In(gain)), gain, In(w.a.sfxGain))
    IN  [w EXCEPT !.g = [g4 EXCEPT !.nodes[osc].started = TRUE,
                                   !.nodes[osc].startAt = t,
                                   !.nodes[osc].stopAt = t + 150]]

\* playHoverSound() at ctx.currentTime = t; r is the Math.random() draw
playHoverSound(w, t, r) ==
    IF ~w.a.initialized \/ w.a.isMuted THEN w
    ELSE
    LET g1 == create(w.g, "osc", w.a.ctx)
        osc == LastId(g1)
        g2 == create(g1, "gain", w.a.ctx)
        gain == LastId(g2)
        g3 == [g2 EXCEPT
                !.nodes[osc].type = "square",
                !.nodes[osc].frequency =
                    setValueAtTime(@, Milli(800) + (r * 200), t),
                !.nodes[gain].gain =
                    exponentialRampToValueAtTime(setValueAtTime(@, 50, t), 1, t + 50)]
        g4 == connect(connect(g3, osc, In(gain)), gain, In(w.a.sfxGain))
    IN  [w EXCEPT !.g = [g4 EXCEPT !.nodes[osc].started = TRUE,
                                   !.nodes[osc].startAt = t,
                                   !.nodes[osc].stopAt = t + 50]]

\* const audio = new AudioEngine();
NoGraph == [ctxs |-> <<>>, nodes |-> <<>>]

-----------------------------------------------------------------------------
(* part_001: App, as far as it drives the AudioEngine *)

\* one-shot oscillators created so far (the ones given a stop time)
Shots == Cardinality({i \in 1..Len(graph.nodes) : graph.nodes[i].stopAt >= 0})
\* a sound effect may be requested: it is gated off, or the run has room for it
RoomFor(n) == ~audio.initialized \/ audio.isMuted \/ Shots < n
RoomForShot == RoomFor(MaxShots)
RoomForClick == RoomFor(1 + MaxClicks)

\* one toggleMute() call as its caller saw it: the flag before and after, and
\* the value returned
Call(w, after, ret) ==
    [initialized |-> w.a.initialized, mutedBefore |-> w.a.isMuted,
     mutedAfter |-> after.a.isMuted, ret |-> ret]
Logged(cs) == IF Len(cs) > 2 THEN SubSeq(cs, Len(cs) - 1, Len(cs)) ELSE cs

Views == {"home", "settings", "device"}

volumeEffect_MusicOnly(w, isBooted, s, t) ==
    IF isBooted THEN setVolumes(w, s.musicVol, 80, t) ELSE w

\* useEffect([settings.musicVol, settings.sfxVol, booted])
volumeEffect(w, isBooted, s, t) ==
    IF isBooted THEN setVolumes(w, s.musicVol, s.sfxVol, t) ELSE w

\* the boot screen's onClick: audio.init(); audio.playClickSound();
\* setBooted(true); setLoading(true); then the volume effect of the new render
BootClick ==
    /\ ~booted
    /\ IF initThrows(World)
       THEN /\ errors' = errors \cup {"App.bootClick"}
            /\ UNCHANGED <<audio, graph, booted, loading, initCalls, toggles>>
       ELSE \E st \in {"running", "suspended"} :
            LET w1 == init(World, st)
                w2 == playClickSound(w1, now)
                w3 == volumeEffect(w2, TRUE, settings, now)
            IN  /\ audio' = w3.a
                /\ graph' = w3.g
                /\ booted' = TRUE
                /\ loading' = TRUE
                /\ initCalls' = initCalls + 1
                /\ UNCHANGED <<errors, toggles>>
    /\ UNCHANGED <<notEngine, audioApi, now, view, settings, notification, burst>>

\* <LoadingScreen onComplete={() => setLoading(false)} />
LoadingComplete ==
    /\ booted /\ loading
    /\ loading' = FALSE
    /\ UNCHANGED <<notEngine, audioApi, audio, graph, now, booted, view, settings,
                   notification, burst, errors, initCalls, toggles>>

\* the window keydown handler, key 'm' or 'M'
KeyM ==
    LET w1 == toggleMute(World, now)
        isMuted == toggleMuteReturn(World, w1)
    IN  /\ audio' = w1.a
        /\ graph' = w1.g
        /\ notification' =
             [show |-> TRUE,
              message |-> IF isMuted THEN "AUDIO MUTED" ELSE "AUDIO RESTORED",
              type |-> IF isMuted THEN "mute" ELSE "info"]
        /\ UNCHANGED <<notEngine, audioApi, now, booted, loading, view, settings, burst, errors,
                       initCalls, toggles>>

\* setTimeout(() => setNotification(n => ({...n, show: false})), 2000)
NotificationTimeout ==
    /\ notification.show
    /\ notification' = [notification EXCEPT !.show = FALSE]
    /\ UNCHANGED <<notEngine, audioApi, audio, graph, now, booted, loading, view, settings,
                   burst, errors, initCalls, toggles>>

\* the buttons that play the click and change the view
NavClick(v) ==
    /\ booted /\ ~loading /\ RoomForClick
    /\ LET w1 == playClickSound(World, now)
       IN  /\ audio' = w1.a
           /\ graph' = w1.g
    /\ view' = v
    /\ UNCHANGED <<notEngine, audioApi, now, booted, loading, settings, notification, burst,
                   errors, initCalls, toggles>>

\* the centre button: audio.playClickSound(); triggerBurst(); setView('device')
CenterClick ==
    /\ booted /\ ~loading /\ RoomForClick
    /\ LET w1 == playClickSound(World, now)
       IN  /\ audio' = w1.a
           /\ graph' = w1.g
    /\ burst' = TRUE
    /\ view' = "device"
    /\ UNCHANGED <<notEngine, audioApi, now, booted, loading, settings, notification, errors,
                   initCalls, toggles>>

\* triggerBurst's setTimeout(() => setBurst(false), 200)
BurstReset ==
    /\ burst
    /\ burst' = FALSE
    /\ UNCHANGED <<notEngine, audioApi, audio, graph, now, booted, loading, view, settings,
                   notification, errors, initCalls, toggles>>

\* CyberSlider update(): onChange(Math.round(pct)), then the volume effect when
\* the level changed
SliderChange(which, val) ==
    /\ booted /\ ~loading /\ view = "settings"
    /\ LET s1 == IF which = "musicVol" THEN [settings EXCEPT !.musicVol = val]
                                       ELSE [settings EXCEPT !.sfxVol = val]
           w1 == IF s1 = settings THEN World ELSE volumeEffect(World, booted, s1, now)
       IN  /\ settings' = s1
           /\ audio' = w1.a
           /\ graph' = w1.g
    /\ UNCHANGED <<notEngine, audioApi, now, booted, loading, view, notification, burst, errors,
                   initCalls, toggles>>

\* CyberSlider up(), CyberCheckbox onClick: audio.playClickSound()
SettingsClick ==
    /\ booted /\ ~loading /\ view = "settings" /\ RoomForClick
    /\ LET w1 == playClickSound(World, now)
       IN  /\ audio' = w1.a
           /\ graph' = w1.g
    /\ UNCHANGED <<notEngine, audioApi, now, booted, loading, view, settings, notification,
                   burst, errors, initCalls, toggles>>

\* AttributeNode onMouseEnter: audio.playHoverSound()
Hover(r) ==
    /\ booted /\ ~loading /\ view = "home" /\ RoomForClick
    /\ LET w1 == playHoverSound(World, now, r)
       IN  /\ audio' = w1.a
           /\ graph' = w1.g
    /\ UNCHANGED <<notEngine, audioApi, now, booted, loading, view, settings, notification,
                   burst, errors, initCalls, toggles>>

\* the context's clock runs, from 0 at its construction
Tick ==
    /\ audio.ctx # 0
    /\ now < MaxTicks * TickMs
    /\ now' = now + TickMs
    /\ UNCHANGED <<notEngine, audioApi, audio, graph, booted, loading, view, settings,
                   notification, burst, errors, initCalls, toggles>>

\* the module is loaded and App has not rendered anything yet
EngineAtRest ==
    /\ audio = NewAudioEngine
    /\ graph = NoGraph
    /\ now = 0
    /\ booted = FALSE
    /\ loading = FALSE
    /\ view = "home"
    /\ settings = [musicVol |-> 40, sfxVol |-> 80]
    /\ notification = [show |-> FALSE, message |-> "", type |-> "info"]
    /\ burst = FALSE
    /\ errors = {}
    /\ initCalls = 0
    /\ toggles = <<>>

\* no particle is followed
NoParticle ==
    /\ canvas = [width |-> 0, height |-> 0]
    /\ mouseRef = [x |-> 0, y |-> 0, active |-> FALSE]
    /\ particle = [x |-> 0, y |-> 0, vx |-> 0, vy |-> 0]
    /\ frames = 0

\* the main view, and with it the ParticleBackground, is not rendered
NoField ==
    /\ innerWidth = 0
    /\ canvas2d = TRUE
    /\ fieldMounted = FALSE
    /\ particles = <<>>
    /\ timers = {}
    /\ clock = 0
    /\ rafPending = {}
    /\ animationFrameRef = 0
    /\ listeners = {}
    /\ cleanupOf = 0
    /\ run = 0
    /\ bursts = 0
    /\ lastSplice = [fired |-> FALSE, before |-> 0, after |-> 0, alone |-> FALSE]
    /\ stepsInFrame = 0

\* the element holding the DOM focus
NoFocus == <<"none", 0>>
PanelEl(i) == <<"panel", i>>
DiamondEl(d) == <<"diamond", d>>

\* the hook-based application before its page loads
NewHook(blocked) ==
    [mounted |-> FALSE, autoplayBlocked |-> blocked, activated |-> FALSE,
     loading |-> TRUE, screen |-> FALSE, progress |-> 0,
     interval |-> FALSE, completePending |-> FALSE, completions |-> 0,
     loadCtxRef |-> 0, appCtxRef |-> 0, contexts |-> <<>>,
     resumeCalls |-> {}, nodes |-> <<>>, listeners |-> {},
     gestures |-> 0, showSettings |-> FALSE,
     volume |-> 50, effectsVolume |-> 90, motionBlur |-> TRUE,
     fieldOfDepth |-> TRUE, deepColor |-> FALSE, difficulty |-> "easy",
     focusIndex |-> 0, staleFocus |-> 0, focusedDiamond |-> -1,
     values |-> <<10, 10, 10, 10, 10, 10, 5, 5, 6>>, focusEl |-> NoFocus]

\* the hook-based application is not loaded
NoHook == hook = NewHook(TRUE)

\* part_001's App is not mounted: useSystemMonitor's effect has not run, and
\* the LoadingScreen holds its initial state
NewMonitor ==
    [mounted |-> FALSE, cleaned |-> FALSE, battery |-> "none",
     storage |-> "none", interval |-> FALSE, batteryListeners |-> {},
     ticks |-> 0, events |-> 0, lateUpdate |-> FALSE]
NewLoader ==
    [progress |-> 0, stopped |-> FALSE, timeouts |-> 0, completions |-> 0]
NoSystem == monitor = NewMonitor /\ loader = NewLoader

InitApp ==
    audioApi \in BOOLEAN /\ EngineAtRest /\ NoParticle /\ NoField /\ NoHook /\ NoSystem

NextApp ==
    \/ BootClick
    \/ LoadingComplete
    \/ KeyM
    \/ NotificationTimeout
    \/ \E v \in Views : NavClick(v)
    \/ CenterClick
    \/ BurstReset
    \/ \E which \in {"musicVol", "sfxVol"}, val \in Levels : SliderChange(which, val)
    \/ SettingsClick
    \/ \E r \in Randoms : Hover(r)
    \/ Tick

SpecApp == InitApp /\ [][NextApp]_vars

-----------------------------------------------------------------------------
(* part_001: the AudioEngine on its own, its methods called in any order *)

appVars == <<booted, loading, view, settings, notification, burst>>

\* audio.init()
CallInit ==
    /\ IF initThrows(World)
       THEN /\ errors' = errors \cup {"AudioEngine.init"}
            /\ UNCHANGED <<audio, graph, initCalls>>
       ELSE \E st \in {"running", "suspended"} :
            LET w1 == init(World, st)
            IN  /\ audio' = w1.a
                /\ graph' = w1.g
                /\ initCalls' = IF initCalls < 2 THEN initCalls + 1 ELSE 2
                /\ UNCHANGED errors
    /\ UNCHANGED <<notEngine, audioApi, now, toggles, appVars>>

\* audio.setVolumes(musicVol, sfxVol)
CallSetVolumes(musicVol, sfxVol) ==
    /\ LET w1 == setVolumes(World, musicVol, sfxVol, now)
       IN  audio' = w1.a /\ graph' = w1.g
    /\ UNCHANGED <<notEngine, audioApi, now, errors, initCalls, toggles, appVars>>

\* audio.toggleMute()
CallToggleMute ==
    /\ LET w1 == toggleMute(World, now)
       IN  /\ audio' = w1.a
           /\ graph' = w1.g
           /\ toggles' = Logged(Append(toggles,
                                       Call(World, w1, toggleMuteReturn(World, w1))))
    /\ UNCHANGED <<notEngine, audioApi, now, errors, initCalls, appVars>>

\* audio.playClickSound()
CallPlayClickSound ==
    /\ RoomForShot
    /\ LET w1 == playClickSound(World, now)
       IN  audio' = w1.a /\ graph' = w1.g
    /\ UNCHANGED <<notEngine, audioApi, now, errors, initCalls, toggles, appVars>>

\* audio.playHoverSound()
CallPlayHoverSound(r) ==
    /\ RoomForShot
    /\ LET w1 == playHoverSound(World, now, r)
       IN  audio' = w1.a /\ graph' = w1.g
    /\ UNCHANGED <<notEngine, audioApi, now, errors, initCalls, toggles, appVars>>

InitAudio == InitApp

NextAudio ==
    \/ CallInit
    \/ \E v \in VolumePairs : CallSetVolumes(v[1], v[2])
    \/ CallToggleMute
    \/ CallPlayClickSound
    \/ \E r \in Randoms : CallPlayHoverSound(r)
    \/ Tick

SpecAudio == InitAudio /\ [][NextAudio]_vars

-----------------------------------------------------------------------------
(* Claims about the AudioEngine *)

GainNodes == {i \in 1..Len(graph.nodes) : graph.nodes[i].kind = "gain"}
\* the gain nodes whose output drives an AudioParam instead of an audio input
DepthGains == {i \in GainNodes : \E o \in graph.nodes[i].outs : o[2] # "in"}
\* oscillators started and never given a stop time
RunningOscs == {i \in 1..Len(graph.nodes) :
                    /\ graph.nodes[i].kind = "osc"
                    /\ graph.nodes[i].started
                    /\ graph.nodes[i].stopAt < 0}
MasterTarget == Target(graph.nodes[audio.masterGain].gain)
MusicGain == graph.nodes[audio.musicGain].gain
SfxGain == graph.nodes[audio.sfxGain].gain

\* C3: once init() has returned, however often it is called again, one
\* AudioContext has been constructed, one master gain feeds the destination,
\* one music and one sfx bus feed the master, and one drone oscillator and one
\* LFO are running.
C3_InitIdempotent ==
    initCalls >= 1 =>
        /\ Len(graph.ctxs) = 1
        /\ {i \in GainNodes : Destination \in graph.nodes[i].outs} = {audio.masterGain}
        /\ {i \in GainNodes : In(audio.masterGain) \in graph.nodes[i].outs}
                = {audio.musicGain, audio.sfxGain}
        /\ audio.musicGain # audio.sfxGain
        /\ Cardinality(RunningOscs) = 2
        /\ {i \in RunningOscs : graph.nodes[i].type = "sawtooth"} = {audio.droneOsc}
        /\ Cardinality({i \in RunningOscs : graph.nodes[i].type = "sine"}) = 1

C3_Witness == initCalls = 2 /\ Len(graph.ctxs) = 1 /\ Cardinality(RunningOscs) = 2

\* C5 as stated: every value assigned to or scheduled on the gain of any gain
\* node lies in [0, 1].
C5_AllGainsInUnitRange ==
    \A i \in GainNodes : \A v \in ParamValues(graph.nodes[i].gain) :
        0 <= v /\ v <= Milli(1)

\* C5 as amended: every value assigned to or scheduled on the gain of the
\* master, music, sfx, drone and one-shot envelope gain nodes lies in [0, 1];
\* the LFO depth gain, which drives the filter cutoff, is 20.
C5_GainsInUnitRangeExceptLfoDepth ==
    /\ \A i \in GainNodes \ DepthGains : \A v \in ParamValues(graph.nodes[i].gain) :
            0 <= v /\ v <= Milli(1)
    /\ \A i \in DepthGains : ParamValues(graph.nodes[i].gain) = {Milli(20)}
    /\ audio.initialized => Cardinality(DepthGains) = 1

C5_Witness ==
    /\ audio.initialized
    /\ Shots = MaxShots
    /\ Target(MusicGain) = Milli(1)
    /\ Target(SfxGain) = 0
    /\ MasterTarget = 0

\* C8: after two toggleMute() calls on an initialized engine the isMuted flag
\* is what it was before the first of them, and when that was unmuted the
\* master gain is heading to 1.
C8_ToggleTwiceRestores ==
    (Len(toggles) = 2 /\ toggles[1].initialized) =>
        /\ audio.isMuted = toggles[1].mutedBefore
        /\ toggles[2].mutedAfter = toggles[1].mutedBefore
        /\ ~toggles[1].mutedBefore => MasterTarget = Milli(1)

C8_Witness ==
    /\ Len(toggles) = 2 /\ toggles[1].initialized /\ ~toggles[1].mutedBefore
    /\ toggles[1].mutedAfter
    /\ graph.nodes[audio.masterGain].gain.events # <<>>
    /\ MasterTarget = Milli(1)

\* C9: on an initialized engine the master gain is heading to 0 when isMuted
\* and to 1 otherwise; every toggleMute() returns the flag it leaves; on an
\* uninitialized engine it returns false and the flag stays false.
C9_MasterFollowsMute ==
    /\ audio.initialized => MasterTarget = (IF audio.isMuted THEN 0 ELSE Milli(1))
    /\ ~audio.initialized => ~audio.isMuted
    /\ \A i \in 1..Len(toggles) :
            /\ toggles[i].ret = toggles[i].mutedAfter
            /\ ~toggles[i].initialized => ~toggles[i].ret

C9_Witness ==
    /\ Len(toggles) = 2
    /\ ~toggles[1].initialized /\ ~toggles[1].ret
    /\ toggles[2].initialized /\ toggles[2].ret
    /\ audio.isMuted /\ MasterTarget = 0

\* C10: setVolumes(m, s) on an initialized engine schedules on the music bus
\* gain an approach to m/100 and on the sfx bus gain an approach to s/100,
\* both starting at the current audio time with a positive time constant, and
\* steps neither gain's value.
C10_SetVolumesSmoothed ==
    [][\A v \in VolumePairs :
        (CallSetVolumes(v[1], v[2]) /\ audio.initialized) =>
            /\ Target(MusicGain') * 100 = Milli(v[1])
            /\ Target(SfxGain') * 100 = Milli(v[2])
            /\ \A p \in {MusicGain', SfxGain'} :
                    /\ p.events # <<>>
                    /\ p.events[Len(p.events)].op = "setTarget"
                    /\ p.events[Len(p.events)].t = now
                    /\ p.events[Len(p.events)].tc > 0
            /\ MusicGain'.value = MusicGain.value
            /\ SfxGain'.value = SfxGain.value]_vars

C10_Witness ==
    /\ audio.initialized
    /\ now > 0
    /\ MusicGain.events = <<[op |-> "setTarget", v |-> 500, t |-> now, tc |-> 100]>>
    /\ SfxGain.events = <<[op |-> "setTarget", v |-> 800, t |-> now, tc |-> 100]>>
    /\ MusicGain.value = Milli(1)

-----------------------------------------------------------------------------
(* Claims about the App of part_001 *)

\* C6: without a platform audio API no audio entry point throws: no handler
\* ends with an uncaught exception (so the boot click goes on to set booted
\* and loading).
C6_NoThrowWithoutAudioApi == ~audioApi => errors = {}

-----------------------------------------------------------------------------
(* part_001: Particle (createParticleClass) *)

\* hundredths of a px in n px
Px(n) == n * (10 * 10)

\* division rounding towards zero
TruncDiv(a, b) == IF a >= 0 THEN a \div b ELSE -((-a) \div b)
Abs(a) == IF a >= 0 THEN a ELSE -a

\* Math.sqrt, rounded down: the largest r in lo..hi with r * r <= n
RECURSIVE SqrtIn(_, _, _)
SqrtIn(n, lo, hi) ==
    IF lo >= hi THEN lo
    ELSE LET mid == (lo + hi + 1) \div 2
         IN  IF mid * mid <= n THEN SqrtIn(n, mid, hi) ELSE SqrtIn(n, lo, mid - 1)
Sqrt(n) == SqrtIn(n, 0, 46340)

maxDist == 250

\* reset(false): the four Math.random() draws r, in thousandths
resetBase(c, rx, ry, rvx, rvy) ==
    [x |-> (rx * Px(c.width)) \div 1000,
     y |-> (ry * Px(c.height)) \div 1000,
     vx |-> TruncDiv((rvx - 500) * 50, 1000),
     vy |-> TruncDiv((rvy - 500) * 50, 1000)]

\* reset(true): the angle as (cos, sin) in thousandths, the speed in hundredths
resetBurst(c, dir, speed) ==
    [x |-> Px(c.width) \div 2,
     y |-> Px(c.height) \div 2,
     vx |-> TruncDiv(dir[1] * speed, 1000),
     vy |-> TruncDiv(dir[2] * speed, 1000)]

pointerForce_Attract(x, y, m) ==
    LET dx == x - Px(m.x)
        dy == y - Px(m.y)
    IN  IF ~m.active \/ Abs(dx) >= Px(maxDist) \/ Abs(dy) >= Px(maxDist)
        THEN <<0, 0>>
        ELSE LET dist == Sqrt(dx * dx + dy * dy)
             IN  IF dist < Px(maxDist) /\ dist > 0
                 THEN LET force == ((Px(maxDist) - dist) * 1000) \div Px(maxDist)
                      IN  <<-TruncDiv(dx * force * 40, dist * 1000),
                            -TruncDiv(dy * force * 40, dist * 1000)>>
                 ELSE <<0, 0>>

pointerForce_IgnoresActive(x, y, m) ==
    LET dx == x - Px(m.x)
        dy == y - Px(m.y)
    IN  IF Abs(dx) >= Px(maxDist) \/ Abs(dy) >= Px(maxDist)
        THEN <<0, 0>>
        ELSE LET dist == Sqrt(dx * dx + dy * dy)
             IN  IF dist < Px(maxDist) /\ dist > 0
                 THEN LET force == ((Px(maxDist) - dist) * 1000) \div Px(maxDist)
                      IN  <<TruncDiv(dx * force * 40, dist * 1000),
                            TruncDiv(dy * force * 40, dist * 1000)>>
                 ELSE <<0, 0>>

\* the pointer's push on a particle at (x, y): the change of (vx, vy)
pointerForce(x, y, m) ==
    LET dx == x - Px(m.x)
        dy == y - Px(m.y)
    IN  IF ~m.active \/ Abs(dx) >= Px(maxDist) \/ Abs(dy) >= Px(maxDist)
        THEN <<0, 0>>
        ELSE LET dist == Sqrt(dx * dx + dy * dy)
             IN  IF dist < Px(maxDist) /\ dist > 0
                 THEN LET force == ((Px(maxDist) - dist) * 1000) \div Px(maxDist)
                      IN  <<TruncDiv(dx * force * 40, dist * 1000),
                            TruncDiv(dy * force * 40, dist * 1000)>>
                 ELSE <<0, 0>>

wrap_LowerOnly(v, limit) ==
    IF v < 0 THEN limit ELSE v

\* the wrap of one coordinate
wrap(v, limit) ==
    LET v1 == IF v < 0 THEN limit ELSE v
    IN  IF v1 > limit THEN 0 ELSE v1

update_DividesByDamping(q, c, m) ==
    LET x1 == q.x + q.vx
        y1 == q.y + q.vy
        f == pointerForce(x1, y1, m)
    IN  [x |-> wrap(x1, Px(c.width)),
         y |-> wrap(y1, Px(c.height)),
         vx |-> TruncDiv((q.vx + f[1]) * 100, 96),
         vy |-> TruncDiv((q.vy + f[2]) * 100, 96)]

\* update()
update(q, c, m) ==
    LET x1 == q.x + q.vx
        y1 == q.y + q.vy
        f == pointerForce(x1, y1, m)
    IN  [x |-> wrap(x1, Px(c.width)),
         y |-> wrap(y1, Px(c.height)),
         vx |-> TruncDiv((q.vx + f[1]) * 96, 100),
         vy |-> TruncDiv((q.vy + f[2]) * 96, 100)]

\* one animation frame for the particle
Update ==
    /\ frames < MaxFrames
    /\ particle' = update(particle, canvas, mouseRef)
    /\ frames' = frames + 1
    /\ UNCHANGED <<notParticle, canvas, mouseRef>>

\* moveHandler: mousemove / touchmove
MoveHandler(spot) ==
    /\ mouseRef' = [x |-> spot[1], y |-> spot[2], active |-> TRUE]
    /\ mouseRef' # mouseRef
    /\ UNCHANGED <<notParticle, canvas, particle, frames>>

\* endHandler: mouseup / touchend
EndHandler ==
    /\ mouseRef.active
    /\ mouseRef' = [mouseRef EXCEPT !.active = FALSE]
    /\ UNCHANGED <<notParticle, canvas, particle, frames>>

\* resize: canvas.width = window.innerWidth; canvas.height = window.innerHeight
ResizeCanvas(w) ==
    /\ canvas.width # w
    /\ canvas' = [canvas EXCEPT !.width = w]
    /\ UNCHANGED <<notParticle, mouseRef, particle, frames>>

InitParticle ==
    /\ canvas \in [width : Widths, height : {ViewHeight}]
    /\ mouseRef = [x |-> 0, y |-> 0, active |-> FALSE]
    /\ \/ \E rx \in Randoms, ry \in Randoms, rvx \in Randoms, rvy \in Randoms :
            particle = resetBase(canvas, rx, ry, rvx, rvy)
       \/ \E dir \in Directions, speed \in Speeds :
            particle = resetBurst(canvas, dir, speed)
    /\ frames = 0
    /\ audioApi = TRUE /\ EngineAtRest /\ NoField /\ NoHook /\ NoSystem

NextParticle ==
    \/ Update
    \/ \E spot \in PointerSpots : MoveHandler(spot)
    \/ EndHandler
    \/ \E w \in Widths : ResizeCanvas(w)

SpecParticle == InitParticle /\ [][NextParticle]_vars

-----------------------------------------------------------------------------
(* Claims about the Particle *)

OnCanvas(q, c) ==
    /\ 0 <= q.x /\ q.x <= Px(c.width)
    /\ 0 <= q.y /\ q.y <= Px(c.height)

\* C2 as stated: after every update() step the particle is inside the
\* half-open canvas, 0 <= x < canvas.width and 0 <= y < canvas.height.
C2_StaysInHalfOpenCanvas ==
    [][Update => /\ 0 <= particle'.x /\ particle'.x < Px(canvas'.width)
                 /\ 0 <= particle'.y /\ particle'.y < Px(canvas'.height)]_vars

\* C2 as amended: after every update() step the particle is inside the closed
\* canvas, 0 <= x <= canvas.width and 0 <= y <= canvas.height; a particle that
\* leaves through the left or top edge is put exactly on the right or bottom
\* edge.
C2_StaysInClosedCanvas ==
    [][Update => /\ OnCanvas(particle', canvas')
                 /\ particle.x + particle.vx < 0 => particle'.x = Px(canvas'.width)
                 /\ particle.y + particle.vy < 0 => particle'.y = Px(canvas'.height)]_vars

\* a particle that has left through the left edge and sits on the right edge
C2_Witness ==
    /\ frames >= 2
    /\ particle.x = Px(canvas.width)
    /\ particle.vx < 0
    /\ OnCanvas(particle, canvas)

-----------------------------------------------------------------------------
(* ParticleBackground, part_001 lines 324-401, as the App's main view renders
   it, and App.triggerBurst, lines 605-608 *)

BurstSize == 50
BurstRemovalMs == 2000
BurstResetMs == 200

countFor_Wide(w) == 150

\* const count = window.innerWidth < 768 ? 60 : 150
countFor(w) == IF w < 768 THEN 60 ELSE 150

RECURSIVE Total(_)
\* particles.length
Total(ps) == IF ps = <<>> THEN 0 ELSE Head(ps).n + Total(Tail(ps))

RECURSIVE splice(_, _)
\* particles.splice(count): the first count particles stay
splice(ps, count) ==
    IF ps = <<>> \/ count <= 0 THEN <<>>
    ELSE IF Head(ps).n <= count
         THEN <<Head(ps)>> \o splice(Tail(ps), count - Head(ps).n)
         ELSE <<[tag |-> Head(ps).tag, n |-> count]>>

\* the component's state as one value
Field == [particles |-> particles, timers |-> timers, rafPending |-> rafPending,
          animationFrameRef |-> animationFrameRef, listeners |-> listeners,
          cleanupOf |-> cleanupOf, canvas |-> canvas, errors |-> errors,
          stepsInFrame |-> stepsInFrame]

PointerEvents == {"mousemove", "touchmove", "mouseup", "touchend"}

\* the removal timers of bursts still pending
PendingSplices(f) == {tm \in f.timers : tm.kind = "splice"}

\* the effect's body, run r with burstMode b at window width w and time t
effect(f, r, b, k, w, t) ==
    LET count == countFor(w)
        f1 == [f EXCEPT !.listeners = @ \cup {<<"resize", r>>},
                        !.canvas = [width |-> w, height |-> ViewHeight]]
        f2 == IF Total(f1.particles) = 0
              THEN [f1 EXCEPT !.particles = <<[tag |-> 0, n |-> count]>>]
              ELSE f1
    IN  IF ~canvas2d
        THEN \* animate(): ctx.clearRect on null throws, the effect ends here
             [f2 EXCEPT !.errors = @ \cup {"ParticleBackground.effect"},
                        !.cleanupOf = 0]
        ELSE LET f3 == [f2 EXCEPT !.rafPending = @ \cup {r},
                                  !.animationFrameRef = r,
                                  !.stepsInFrame = @ + 1]
                 f4 == IF b
                       THEN [f3 EXCEPT
                               !.particles = Append(@, [tag |-> k, n |-> BurstSize]),
                               !.timers =
                                   {[tm EXCEPT !.alone = FALSE] : tm \in @} \cup
                                   {[kind |-> "splice", id |-> k,
                                     due |-> t + BurstRemovalMs, count |-> count,
                                     before |-> Total(f3.particles),
                                     alone |-> PendingSplices(f3) = {}]}]
                       ELSE f3
             IN  [f4 EXCEPT !.listeners = @ \cup {<<e, r>> : e \in PointerEvents},
                            !.cleanupOf = r]

cleanup_KeepsResize(f) ==
    IF f.cleanupOf = 0 THEN f
    ELSE [f EXCEPT !.listeners = {l \in @ : l[2] # f.cleanupOf \/ l[1] = "resize"},
                   !.rafPending = @ \ {f.animationFrameRef},
                   !.cleanupOf = 0]

cleanup_NoCancel(f) ==
    IF f.cleanupOf = 0 THEN f
    ELSE [f EXCEPT !.listeners = {l \in @ : l[2] # f.cleanupOf},
                   !.cleanupOf = 0]

\* the function the effect returned
cleanup(f) ==
    IF f.cleanupOf = 0 THEN f
    ELSE [f EXCEPT !.listeners = {l \in @ : l[2] # f.cleanupOf},
                   !.rafPending = @ \ {f.animationFrameRef},
                   !.cleanupOf = 0]

\* burstMode changed: React runs the old cleanup and then the effect again
rerender(f, r, b, k, w, t) == effect(cleanup(f), r, b, k, w, t)

Commit(f) ==
    /\ particles' = f.particles
    /\ timers' = f.timers
    /\ rafPending' = f.rafPending
    /\ animationFrameRef' = f.animationFrameRef
    /\ listeners' = f.listeners
    /\ cleanupOf' = f.cleanupOf
    /\ canvas' = f.canvas
    /\ errors' = f.errors
    /\ stepsInFrame' = f.stepsInFrame

\* the App has not been torn down by an uncaught render or effect error
Alive == errors = {}

\* the main view is rendered for the first time: the effect runs, burst is false
MountField ==
    /\ ~fieldMounted /\ Alive /\ run = 0
    /\ fieldMounted' = TRUE
    /\ run' = run + 1
    /\ Commit(effect(Field, run + 1, burst, bursts, innerWidth, clock))
    /\ UNCHANGED <<notField, burst, innerWidth, canvas2d, clock, bursts, lastSplice>>

\* the window is resized; every resize listener still attached sets the canvas
ResizeWindow(w) ==
    /\ w # innerWidth
    /\ innerWidth' = w
    /\ canvas' = IF \E l \in listeners : l[1] = "resize"
                 THEN [width |-> w, height |-> ViewHeight]
                 ELSE canvas
    /\ UNCHANGED <<notField, burst, errors, canvas2d, fieldMounted, particles,
                   timers, clock, rafPending, animationFrameRef, listeners,
                   cleanupOf, run, bursts, lastSplice, stepsInFrame>>

\* triggerBurst(): setBurst(true), and setBurst(false) 200 ms later
TriggerBurst ==
    /\ fieldMounted /\ Alive
    /\ bursts < MaxBursts
    /\ bursts' = bursts + 1
    /\ LET reset == [kind |-> "reset", id |-> bursts + 1,
                     due |-> clock + BurstResetMs, count |-> 0, before |-> 0,
                     alone |-> FALSE]
           f == IF burst THEN Field
                ELSE rerender(Field, run + 1, TRUE, bursts + 1, innerWidth, clock)
       IN  Commit([f EXCEPT !.timers = @ \cup {reset}])
    /\ burst' = TRUE
    /\ run' = IF burst THEN run ELSE run + 1
    /\ UNCHANGED <<notField, innerWidth, canvas2d, fieldMounted, clock, lastSplice>>

\* the main view is unmounted (the page's root is torn down): React runs the
\* cleanup the effect returned
UnmountField ==
    /\ fieldMounted /\ Alive
    /\ fieldMounted' = FALSE
    /\ Commit(cleanup(Field))
    /\ UNCHANGED <<notField, burst, innerWidth, canvas2d, clock, run, bursts,
                   lastSplice>>

\* the timer that is due first
Due(tm) ==
    /\ tm \in timers
    /\ tm.due <= clock
    /\ \A o \in timers : o.due >= tm.due

\* () => setBurst(false)
BurstResetTimer ==
    \E tm \in timers :
        /\ Due(tm) /\ tm.kind = "reset"
        /\ LET f0 == [Field EXCEPT !.timers = @ \ {tm}]
               f == IF burst /\ Alive /\ fieldMounted
                    THEN rerender(f0, run + 1, FALSE, bursts, innerWidth, clock)
                    ELSE f0
           IN  Commit(f)
        /\ burst' = FALSE
        /\ run' = IF burst /\ Alive /\ fieldMounted THEN run + 1 ELSE run
        /\ UNCHANGED <<notField, innerWidth, canvas2d, fieldMounted, clock, bursts,
                       lastSplice>>

\* () => particles.splice(count)
BurstRemovalTimer ==
    \E tm \in timers :
        /\ Due(tm) /\ tm.kind = "splice"
        /\ particles' = splice(particles, tm.count)
        /\ timers' = timers \ {tm}
        /\ lastSplice' = [fired |-> TRUE, before |-> tm.before,
                          after |-> Total(splice(particles, tm.count)),
                          alone |-> tm.alone]
        /\ UNCHANGED <<notField, burst, errors, canvas, innerWidth, canvas2d,
                       fieldMounted, clock, rafPending, animationFrameRef,
                       listeners, cleanupOf, run, bursts, stepsInFrame>>

\* a display frame begins: a frame callback runs animate(), which steps the
\* particles and requests the next frame
Frame ==
    \E r \in rafPending :
        /\ animationFrameRef' = r
        /\ stepsInFrame' = 1
        /\ UNCHANGED <<notField, burst, errors, canvas, innerWidth, canvas2d,
                       fieldMounted, particles, timers, clock, rafPending,
                       listeners, cleanupOf, run, bursts, lastSplice>>

\* time passes, once every timer that was due has run
ClockTick ==
    /\ clock < MaxFieldTicks * FieldTickMs
    /\ \A tm \in timers : tm.due > clock
    /\ clock' = clock + FieldTickMs
    /\ UNCHANGED <<notField, burst, errors, canvas, innerWidth, canvas2d,
                   fieldMounted, particles, timers, rafPending,
                   animationFrameRef, listeners, cleanupOf, run, bursts,
                   lastSplice, stepsInFrame>>

InitField ==
    /\ audioApi = TRUE /\ EngineAtRest /\ NoParticle /\ NoHook /\ NoSystem
    /\ innerWidth \in Widths
    /\ canvas2d \in BOOLEAN
    /\ fieldMounted = FALSE
    /\ particles = <<>>
    /\ timers = {}
    /\ clock = 0
    /\ rafPending = {}
    /\ animationFrameRef = 0
    /\ listeners = {}
    /\ cleanupOf = 0
    /\ run = 0
    /\ bursts = 0
    /\ lastSplice = [fired |-> FALSE, before |-> 0, after |-> 0, alone |-> FALSE]
    /\ stepsInFrame = 0

NextField ==
    \/ MountField
    \/ \E w \in Widths : ResizeWindow(w)
    \/ TriggerBurst
    \/ UnmountField
    \/ BurstResetTimer
    \/ BurstRemovalTimer
    \/ Frame
    \/ ClockTick

SpecField == InitField /\ [][NextField]_vars

-----------------------------------------------------------------------------
(* Claims about the ParticleBackground *)

\* C1: when a burst was triggered with no other burst pending, then once its
\* removal timer has fired the particle array has the length it had just
\* before the burst, also when the window was resized across the breakpoint
\* in between.
C1_BurstRestoresLength ==
    (lastSplice.fired /\ lastSplice.alone) =>
        lastSplice.after = lastSplice.before

\* C7: when the canvas gives no 2D context, mounting the particle field
\* raises no uncaught error.
C7_NoContextNoError ==
    (~canvas2d /\ fieldMounted) => errors = {}

-----------------------------------------------------------------------------
(* The hook-based application, part_002: useSoundEngine lines 9-64,
   LoadingScreen lines 70-122, App lines 507-538 and 630-632 *)

FullProgress == 100
SmallJump == 2
BigJump == 15

Gestures == {"click", "touchstart", "keydown"}
\* the panel elements and the diamonds that a focus event is tried on
PanelSpots == {1, 2, 6, 9}
DiamondSpots == {0, 8}
\* the arrow keys pressed
ArrowKeys == {"ArrowDown", "ArrowUp", "ArrowLeft", "ArrowRight"}

Min(a, b) == IF a < b THEN a ELSE b
Max(a, b) == IF a > b THEN a ELSE b

\* SettingsPanel: settingsCount rows, three difficulty labels, two buttons
settingsCount == 5
totalFocusableItems == settingsCount + 3 + 2
diffs == <<"easy", "medium", "hard">>
\* the state each SettingRow shows, by row: two sliders, three toggles
RowField == <<"volume", "effectsVolume", "motionBlur", "fieldOfDepth", "deepColor">>
\* slider keys move a value by SliderStep within 0..SliderMax
SliderStep == 5
SliderMax == 100
\* App: six attribute diamonds and three skill diamonds
totalDiamonds == 6 + 3
\* the upper limit of each diamond's value: 20 for attributes, max for skills
DiamondMax == <<20, 20, 20, 20, 20, 20, 9, 10, 10>>

\* useSoundEngine.initAudio on the audioContextRef named ref
initAudio(h, ref) ==
    LET h1 == IF h[ref] = 0 /\ audioApi
              THEN [h EXCEPT
                      !.contexts = Append(@, IF h.autoplayBlocked /\ ~h.activated
                                             THEN "suspended" ELSE "running"),
                      ![ref] = Len(h.contexts) + 1]
              ELSE h
    IN  IF h1[ref] # 0 /\ h1.contexts[h1[ref]] = "suspended"
        THEN \* resume() is requested; the platform grants it once the page
             \* has had a user gesture
             [h1 EXCEPT !.resumeCalls = @ \cup {h1[ref]},
                        !.contexts[h1[ref]] =
                            IF h1.activated THEN "running" ELSE "suspended"]
        ELSE h1

\* osc.stop(now + ...) of each sound type, ms after its start
StopAfter(type) ==
    CASE type = "click" -> 50
      [] type = "hover" -> 100
      [] type = "scan" -> 200

\* the volume argument of the useSoundEngine call that owns ref, in percent:
\* LoadingScreen passes 0.5, App passes volume / 100
VolumeOf(h, ref) == IF ref = "loadCtxRef" THEN 50 ELSE h.volume

\* the branch of playSound for one type: oscillator osc and gain node gain
\* shaped, the oscillator started at t and stopped at stopAt; gains in
\* thousandths, so volume * 0.5 of a volume of v percent is v * 5
voice(h, ref, osc, gain, type, t, stopAt) ==
    CASE type = "click" ->
           [h EXCEPT
              !.nodes[osc].type = "square",
              !.nodes[osc].frequency =
                  exponentialRampToValueAtTime(setValueAtTime(@, Milli(800), t),
                                               Milli(1200), t + 50),
              !.nodes[gain].gain =
                  exponentialRampToValueAtTime(
                      setValueAtTime(@, VolumeOf(h, ref) * 5, t), 10, t + 50),
              !.nodes[osc].started = TRUE,
              !.nodes[osc].startAt = t,
              !.nodes[osc].stopAt = stopAt]
      [] type = "hover" ->
           [h EXCEPT
              !.nodes[osc].type = "sine",
              !.nodes[osc].frequency =
                  linearRampToValueAtTime(setValueAtTime(@, Milli(200), t),
                                          Milli(220), t + 50),
              !.nodes[gain].gain =
                  linearRampToValueAtTime(
                      setValueAtTime(@, VolumeOf(h, ref), t), 0, t + 100),
              !.nodes[osc].started = TRUE,
              !.nodes[osc].startAt = t,
              !.nodes[osc].stopAt = stopAt]
      [] type = "scan" ->
           [h EXCEPT
              !.nodes[osc].type = "sawtooth",
              !.nodes[osc].frequency =
                  linearRampToValueAtTime(setValueAtTime(@, Milli(100), t),
                                          Milli(800), t + 200),
              !.nodes[gain].gain =
                  exponentialRampToValueAtTime(
                      setValueAtTime(@, VolumeOf(h, ref) * 2, t), 10, t + 200),
              !.nodes[osc].started = TRUE,
              !.nodes[osc].startAt = t,
              !.nodes[osc].stopAt = stopAt]
      [] OTHER -> h

playSound_StopAtStart(h, ref, type, t) ==
    IF h[ref] = 0 THEN h
    ELSE
    LET h1 == create(h, "osc", h[ref])
        osc == LastId(h1)
        h2 == create(h1, "gain", h[ref])
        gain == LastId(h2)
        h3 == connect(connect(h2, osc, In(gain)), gain, Destination)
    IN  voice(h3, ref, osc, gain, type, t, t)

playSound_ReusesNodes(h, ref, type, t) ==
    IF h[ref] = 0 THEN h
    ELSE
    LET fresh == h.nodes = <<>>
        h1 == IF fresh THEN create(h, "osc", h[ref]) ELSE h
        osc == IF fresh THEN LastId(h1) ELSE Len(h.nodes) - 1
        h2 == IF fresh THEN create(h1, "gain", h[ref]) ELSE h
        gain == LastId(h2)
        h3 == connect(connect(h2, osc, In(gain)), gain, Destination)
    IN  voice(h3, ref, osc, gain, type, t, t + StopAfter(type))

\* useSoundEngine.playSound(type) on the audioContextRef named ref, at
\* ctx.currentTime = t
playSound(h, ref, type, t) ==
    IF h[ref] = 0 THEN h
    ELSE
    LET h1 == create(h, "osc", h[ref])
        osc == LastId(h1)
        h2 == create(h1, "gain", h[ref])
        gain == LastId(h2)
        h3 == connect(connect(h2, osc, In(gain)), gain, Destination)
    IN  voice(h3, ref, osc, gain, type, t, t + StopAfter(type))

\* the effects that run after a render, given the state before the event:
\* SettingsPanel's effect on [active] sets focusIndex to 0; a SettingRow or
\* StatDiamond whose isFocused turned true (or that mounts with it) takes the
\* DOM focus; the rows unmount with the panel and the focus they held is lost
commitFocus(before, h) ==
    LET opened == h.showSettings /\ ~before.showSettings
        closed == ~h.showSettings /\ before.showSettings
        idx == IF opened THEN 0 ELSE h.focusIndex
    IN  [h EXCEPT
           !.focusIndex = idx,
           !.staleFocus = IF opened THEN h.focusIndex ELSE @,
           !.focusEl =
               IF h.showSettings /\ idx < settingsCount
                  /\ (opened \/ idx # before.focusIndex)
               THEN PanelEl(idx)
               ELSE IF ~h.loading /\ h.focusedDiamond >= 0
                       /\ h.focusedDiamond # before.focusedDiamond
               THEN DiamondEl(h.focusedDiamond)
               ELSE IF closed /\ @[1] = "panel" THEN NoFocus
               ELSE @]

\* the page loads: App renders the LoadingScreen; LoadingScreen's effect runs
\* (initAudio, setInterval), then App's effect attaches the gesture listeners
MountApp ==
    /\ ~hook.mounted
    /\ hook' = [initAudio(hook, "loadCtxRef") EXCEPT
                  !.mounted = TRUE, !.screen = TRUE, !.interval = TRUE,
                  !.listeners = Gestures]
    /\ UNCHANGED notHook

\* a sound may be synthesised: the nodes h holds are within the run's bound
Room(h) == Len(h.nodes) <= 2 * MaxShots

\* the interval callback: setProgress's updater
IntervalTick(big, scan, t) ==
    /\ hook.interval
    /\ LET h1 == IF hook.progress >= FullProgress
                 THEN [hook EXCEPT !.interval = FALSE, !.completePending = TRUE,
                                   !.progress = FullProgress]
                 ELSE [(IF scan THEN playSound(hook, "loadCtxRef", "scan", t) ELSE hook)
                         EXCEPT !.progress =
                           Min(@ + (IF big THEN BigJump ELSE SmallJump), FullProgress)]
       IN  /\ Len(h1.nodes) <= 2 * MaxScans
           /\ hook' = h1
    /\ UNCHANGED notHook

\* setTimeout(onComplete, 500) fires: setLoading(false), the LoadingScreen
\* unmounts and its cleanup clears the interval
CompleteTimeout ==
    /\ hook.completePending
    /\ hook' = [hook EXCEPT !.completePending = FALSE, !.loading = FALSE,
                            !.screen = FALSE, !.interval = FALSE,
                            !.completions = @ + 1]
    /\ UNCHANGED notHook

\* handleInteraction: a click, touchstart or keydown on the window
Gesture(e) ==
    /\ e \in hook.listeners
    /\ hook.gestures < MaxGestures
    /\ hook' = [initAudio([hook EXCEPT !.activated = TRUE], "appCtxRef")
                  EXCEPT !.gestures = @ + 1]
    /\ UNCHANGED notHook

\* handleInteraction, as the first keydown / click listener of the window
handleInteraction(h) == initAudio([h EXCEPT !.activated = TRUE], "appCtxRef")

\* toggleSettings(): playSound('click'); setShowSettings(!showSettings)
toggleSettings(h, t) ==
    [playSound(h, "appCtxRef", "click", t) EXCEPT !.showSettings = ~h.showSettings]

\* the key 's' or 'S' goes down: handleInteraction, then App's handleKeyDown
\* when its effect has attached it (not loading, panel closed); the
\* SettingsPanel's own handleKeyDown has no case for it
KeyS(t) ==
    /\ "keydown" \in hook.listeners
    /\ hook.gestures < MaxGestures
    /\ LET h1 == handleInteraction(hook)
           h2 == IF ~hook.loading /\ ~hook.showSettings
                 THEN toggleSettings(h1, t) ELSE h1
       IN  /\ Room(h2)
           /\ hook' = commitFocus(hook, [h2 EXCEPT !.gestures = @ + 1])
    /\ UNCHANGED notHook

\* the Escape key goes down: handleInteraction, then the SettingsPanel's
\* handleKeyDown when the panel is active: onClose(); playSound('click').
\* (App's handler is attached only while showSettings is false, where its
\* Escape case does nothing.)
KeyEscape(t) ==
    /\ "keydown" \in hook.listeners
    /\ hook.gestures < MaxGestures
    /\ LET h1 == handleInteraction(hook)
           h2 == IF ~hook.loading /\ hook.showSettings
                 THEN [playSound(h1, "appCtxRef", "click", t)
                         EXCEPT !.showSettings = FALSE]
                 ELSE h1
       IN  /\ Room(h2)
           /\ hook' = commitFocus(hook, [h2 EXCEPT !.gestures = @ + 1])
    /\ UNCHANGED notHook

\* a click on the header's settings button: React runs onClick=toggleSettings,
\* then the event reaches the window's click listener, handleInteraction
SettingsButtonClick(t) ==
    /\ hook.mounted /\ ~hook.loading /\ ~hook.showSettings
    /\ hook.gestures < MaxGestures
    /\ LET h2 == handleInteraction(toggleSettings(hook, t))
       IN  /\ Room(h2)
           /\ hook' = commitFocus(hook, [h2 EXCEPT !.gestures = @ + 1])
    /\ UNCHANGED notHook

\* SettingRow.handleKeyDown of the row numbered row (0-based)
SettingRowKeyDown(h, row, key, t) ==
    LET f == RowField[row + 1]
    IN  IF row < 2
        THEN \* type === 'slider'
             IF key \in {"ArrowLeft", "ArrowDown"}
             THEN [playSound(h, "appCtxRef", "click", t)
                     EXCEPT ![f] = Max(0, h[f] - SliderStep)]
             ELSE IF key \in {"ArrowRight", "ArrowUp"}
             THEN [playSound(h, "appCtxRef", "click", t)
                     EXCEPT ![f] = Min(SliderMax, h[f] + SliderStep)]
             ELSE h
        ELSE IF key \in {"ArrowLeft", "ArrowRight", "Enter", " "}
             THEN [playSound(h, "appCtxRef", "click", t) EXCEPT ![f] = ~h[f]]
             ELSE h

\* SettingsPanel.handleDifficultyKeyDown(e, diffs[currentIndex])
handleDifficultyKeyDown(h, currentIndex, key, t) ==
    IF key = "ArrowLeft" /\ currentIndex > 0
    THEN [playSound(h, "appCtxRef", "hover", t)
            EXCEPT !.difficulty = diffs[currentIndex],
                   !.focusIndex = settingsCount + currentIndex - 1]
    ELSE IF key = "ArrowRight" /\ currentIndex < Len(diffs) - 1
    THEN [playSound(h, "appCtxRef", "hover", t)
            EXCEPT !.difficulty = diffs[currentIndex + 2],
                   !.focusIndex = settingsCount + currentIndex + 1]
    ELSE h

\* StatDiamond.handleKeyDown of diamond d: onValueChange(1) or (-1), which is
\* App's handleAttributeChange or handleSkillChange
StatDiamondKeyDown(h, d, key, t) ==
    LET delta == IF key \in {"ArrowUp", "ArrowRight"} THEN 1 ELSE -1
    IN  IF key \in ArrowKeys
        THEN [playSound(h, "appCtxRef", "click", t)
                EXCEPT !.values[d + 1] = Max(1, Min(DiamondMax[d + 1], @ + delta))]
        ELSE h

PanelKeyDown_NoClamp(h, key, t) ==
    CASE key = "ArrowDown" ->
           [playSound(h, "appCtxRef", "hover", t) EXCEPT !.focusIndex = @ + 1]
      [] key = "ArrowUp" ->
           [playSound(h, "appCtxRef", "hover", t) EXCEPT !.focusIndex = @ - 1]
      [] OTHER -> h

\* the window keydown listener of the SettingsPanel
PanelKeyDown(h, key, t) ==
    CASE key = "ArrowDown" ->
           [playSound(h, "appCtxRef", "hover", t)
              EXCEPT !.focusIndex = Min(@ + 1, totalFocusableItems - 1)]
      [] key = "ArrowUp" ->
           [playSound(h, "appCtxRef", "hover", t)
              EXCEPT !.focusIndex = Max(@ - 1, 0)]
      [] OTHER -> h

\* the arrow cases of App's window keydown listener
AppKeyDown(h, key, t) ==
    CASE key \in {"ArrowRight", "ArrowDown"} ->
           [playSound(h, "appCtxRef", "hover", t)
              EXCEPT !.focusedDiamond = IF @ + 1 >= totalDiamonds THEN 0 ELSE @ + 1]
      [] key \in {"ArrowLeft", "ArrowUp"} ->
           [playSound(h, "appCtxRef", "hover", t)
              EXCEPT !.focusedDiamond = IF @ - 1 < 0 THEN totalDiamonds - 1 ELSE @ - 1]
      [] OTHER -> h

\* the handler React runs on the element that holds the focus
TargetKeyDown(h, key, t) ==
    IF h.loading THEN h
    ELSE IF h.focusEl[1] = "panel" /\ h.focusEl[2] < settingsCount
    THEN SettingRowKeyDown(h, h.focusEl[2], key, t)
    ELSE IF h.focusEl[1] = "panel" /\ h.focusEl[2] < settingsCount + Len(diffs)
    THEN handleDifficultyKeyDown(h, h.focusEl[2] - settingsCount, key, t)
    ELSE IF h.focusEl[1] = "diamond"
    THEN StatDiamondKeyDown(h, h.focusEl[2], key, t)
    ELSE h

\* the window keydown listener that is attached besides handleInteraction
WindowKeyDown(h, before, key, t) ==
    IF before.loading THEN h
    ELSE IF before.showSettings THEN PanelKeyDown(h, key, t)
    ELSE AppKeyDown(h, key, t)

\* an arrow key goes down: the focused element's onKeyDown, then the window's
\* listeners handleInteraction and the panel's or App's handleKeyDown, then
\* the render's effects
KeyArrow(key, t) ==
    /\ "keydown" \in hook.listeners
    /\ hook.gestures < MaxGestures
    /\ LET h1 == TargetKeyDown(hook, key, t)
           h2 == handleInteraction(h1)
           h3 == WindowKeyDown(h2, hook, key, t)
       IN  /\ Room(h3)
           /\ hook' = commitFocus(hook, [h3 EXCEPT !.gestures = @ + 1])
    /\ UNCHANGED notHook

\* the DOM focus moves to element i of the open panel (Tab, Shift+Tab or a
\* pointer press on it): its onFocus runs, and the window's keydown or click
\* listener handleInteraction
PanelFocus(i) ==
    /\ hook.mounted /\ ~hook.loading /\ hook.showSettings
    /\ hook.gestures < MaxGestures
    /\ hook' = [handleInteraction(hook) EXCEPT !.focusIndex = i,
                                               !.focusEl = PanelEl(i),
                                               !.gestures = @ + 1]
    /\ UNCHANGED notHook

\* the DOM focus moves to diamond d of the main view the same way
DiamondFocus(d) ==
    /\ hook.mounted /\ ~hook.loading /\ ~hook.showSettings
    /\ hook.gestures < MaxGestures
    /\ hook' = [handleInteraction(hook) EXCEPT !.focusedDiamond = d,
                                               !.focusEl = DiamondEl(d),
                                               !.gestures = @ + 1]
    /\ UNCHANGED notHook

InitHook ==
    /\ audioApi \in BOOLEAN /\ EngineAtRest /\ NoParticle /\ NoField /\ NoSystem
    /\ \E blocked \in BOOLEAN : hook = NewHook(blocked)

NextHook ==
    \/ MountApp
    \/ \E big \in BOOLEAN, scan \in BOOLEAN, t \in Times : IntervalTick(big, scan, t)
    \/ CompleteTimeout
    \/ \E e \in Gestures : Gesture(e)
    \/ \E t \in Times : KeyS(t)
    \/ \E t \in Times : KeyEscape(t)
    \/ \E t \in Times : SettingsButtonClick(t)
    \/ \E key \in ArrowKeys, t \in Times : KeyArrow(key, t)
    \/ \E i \in PanelSpots : PanelFocus(i)
    \/ \E d \in DiamondSpots : DiamondFocus(d)

SpecHook == InitHook /\ [][NextHook]_vars

-----------------------------------------------------------------------------
(* Claims about the hook-based application *)

\* C4: after any sequence of component mounts and click, touchstart and
\* keydown gestures, at most one AudioContext has been constructed.
C4_AtMostOneAudioContext == Len(hook.contexts) <= 1

-----------------------------------------------------------------------------
(* The sound of either application: a page loads part_001, whose AudioEngine
   methods are then called in any order, or it loads the hook-based
   application of part_002 *)

InitSound == InitApp

NextSound ==
    \/ ~hook.mounted /\ NextAudio
    \/ EngineAtRest /\ NextHook

SpecSound == InitSound /\ [][NextSound]_vars

\* the one-shot oscillators of playClickSound: sawtooth, with a stop time
EngineClicks == {i \in 1..Len(graph.nodes) :
                    /\ graph.nodes[i].kind = "osc"
                    /\ graph.nodes[i].type = "sawtooth"
                    /\ graph.nodes[i].stopAt >= 0}
\* the oscillators of playSound('click')
HookClicks == {i \in 1..Len(hook.nodes) :
                  hook.nodes[i].kind = "osc" /\ hook.nodes[i].type = "square"}

\* C11: every click effect, of AudioEngine.playClickSound and of the hook's
\* playSound('click'), stops its oscillator strictly after its start and at
\* most 150 ms after it.
C11_ClickStopsWithin150ms ==
    /\ \A i \in EngineClicks :
          /\ graph.nodes[i].startAt < graph.nodes[i].stopAt
          /\ graph.nodes[i].stopAt <= graph.nodes[i].startAt + 150
    /\ \A i \in HookClicks :
          /\ hook.nodes[i].startAt < hook.nodes[i].stopAt
          /\ hook.nodes[i].stopAt <= hook.nodes[i].startAt + 150

\* a click of the AudioEngine requested after its clock has advanced
C11_Witness ==
    \E i \in EngineClicks : graph.nodes[i].startAt = TickMs

\* C17 as stated, for AudioEngine.init: when init() is called while the
\* engine's context exists and is suspended, resume() is requested on it (the
\* context leaves the suspended state, the call being a user gesture's).
C17_InitResumesSuspended ==
    [][(CallInit /\ audio.ctx # 0 /\ graph.ctxs[audio.ctx] = "suspended")
          => graph'.ctxs[audio.ctx] = "running"]_vars

\* C18: before a successful initialization the other operations are no-ops:
\* the engine has built nothing and holds its constructor's state, every
\* toggleMute() made then returned false and left isMuted false, and the
\* hook's playSound has scheduled nothing on a context that was not
\* constructed.
C18_NoOpBeforeInit ==
    /\ ~audio.initialized => (audio = NewAudioEngine /\ graph = NoGraph)
    /\ \A i \in 1..Len(toggles) :
          ~toggles[i].initialized =>
              /\ toggles[i].ret = FALSE
              /\ toggles[i].mutedAfter = FALSE
    /\ \A i \in 1..Len(hook.nodes) : hook.nodes[i].ctx \in 1..Len(hook.contexts)
    /\ hook.contexts = <<>> => hook.nodes = <<>>

\* the settings panel was opened by toggleSettings, whose playSound('click')
\* found no context
C18_Witness ==
    /\ hook.showSettings
    /\ hook.appCtxRef = 0
    /\ hook.nodes = <<>>

-----------------------------------------------------------------------------
(* Claims about the Particle's velocity *)

\* the particle's offset from the pointer as update() measures it, after the
\* position has advanced by the velocity
OffsetX == particle.x + particle.vx - Px(mouseRef.x)
OffsetY == particle.y + particle.vy - Px(mouseRef.y)
\* the distance d of that offset satisfies 0 < d < maxDist
InReach ==
    /\ mouseRef.active
    /\ Abs(OffsetX) < Px(maxDist) /\ Abs(OffsetY) < Px(maxDist)
    /\ OffsetX * OffsetX + OffsetY * OffsetY < Px(maxDist) * Px(maxDist)
    /\ OffsetX # 0 \/ OffsetY # 0
\* the pointer is inactive, or d >= maxDist
OutOfReach ==
    \/ ~mouseRef.active
    \/ Abs(OffsetX) >= Px(maxDist) \/ Abs(OffsetY) >= Px(maxDist)
    \/ OffsetX * OffsetX + OffsetY * OffsetY >= Px(maxDist) * Px(maxDist)
\* the squared velocity magnitude
Speed2(q) == q.vx * q.vx + q.vy * q.vy
\* 0.96 * v
Damped(v) == TruncDiv(v * 96, 100)

\* C12 as stated: with the pointer active at a distance 0 < d < 250, the
\* velocity magnitude after one update() step is at least the magnitude before.
C12_SpeedNotLowerInReach ==
    [][(Update /\ InReach) => Speed2(particle') >= Speed2(particle)]_vars

\* C12 as amended: with the pointer active at a distance 0 < d < 250, one
\* update() step damps the velocity by 0.96 after adding a push that points
\* away from the pointer and is at most 0.4 px per frame on each axis: each
\* velocity component ends on the side of its damped value that is away from
\* the pointer, no more than 0.4 px from it.
C12_PushedAwayThenDamped ==
    [][(Update /\ InReach) =>
          /\ OffsetX >= 0 => /\ particle'.vx >= Damped(particle.vx)
                             /\ particle'.vx <= Damped(particle.vx) + 40
          /\ OffsetX <= 0 => /\ particle'.vx <= Damped(particle.vx)
                             /\ particle'.vx >= Damped(particle.vx) - 40
          /\ OffsetY >= 0 => /\ particle'.vy >= Damped(particle.vy)
                             /\ particle'.vy <= Damped(particle.vy) + 40
          /\ OffsetY <= 0 => /\ particle'.vy <= Damped(particle.vy)
                             /\ particle'.vy >= Damped(particle.vy) - 40]_vars

\* a particle that the pointer has pushed to the left: no particle starts with
\* a horizontal velocity between -1 and -0.3 px per frame, and damping alone
\* does not bring a burst particle there within the run
C12_Witness ==
    /\ frames >= 1
    /\ mouseRef.active
    /\ particle.vx < -30 /\ particle.vx > -100

\* C13: when the pointer is inactive or at a distance d >= 250, one update()
\* step changes the velocity by the damping alone: vx' = 0.96 vx and
\* vy' = 0.96 vy.
C13_OnlyDampingOutOfReach ==
    [][(Update /\ OutOfReach) =>
          /\ particle'.vx = Damped(particle.vx)
          /\ particle'.vy = Damped(particle.vy)]_vars

\* a burst particle stepped with the pointer active and out of reach
C13_Witness ==
    /\ frames >= 1
    /\ mouseRef.active
    /\ particle.vx > 400
    /\ Abs(particle.x - Px(mouseRef.x)) >= Px(maxDist)

\* C14: with the pointer inactive, the velocity magnitude does not grow in any
\* update() step, so it is non-increasing over any number of steps.
C14_SpeedNonIncreasingInactive ==
    [][(Update /\ ~mouseRef.active) => Speed2(particle') <= Speed2(particle)]_vars

\* a particle stepped to the end of the run with the pointer inactive
C14_Witness ==
    /\ frames = MaxFrames
    /\ ~mouseRef.active
    /\ Speed2(particle) > 0

-----------------------------------------------------------------------------
(* Claims about the ParticleBackground's frame loop and listeners *)

\* the effect runs whose cleanup has run: with a 2D context every run returns
\* its cleanup, and React holds that of the latest run only
CleanedRuns == {r \in 1..run : canvas2d /\ r # cleanupOf}

\* C15: once the cleanup of an effect run has run (re-run or unmount), no
\* frame callback of that run is pending and none of the listeners the run
\* attached is still attached.
C15_CleanupStopsLoopAndListeners ==
    \A r \in CleanedRuns :
        /\ r \notin rafPending
        /\ \A l \in listeners : l[2] # r

\* the component was unmounted after a burst had re-run its effect
C15_Witness ==
    /\ ~fieldMounted
    /\ run >= 2
    /\ CleanedRuns = 1..run

\* C16 as stated: at most one frame callback is pending at every moment, and
\* the particles are stepped once per display frame.
C16_OnePendingOneStepPerFrame ==
    /\ Cardinality(rafPending) <= 1
    /\ stepsInFrame <= 1

\* C16 as amended: at most one frame callback is pending at every moment, the
\* latest run's while the component is mounted; the particles are stepped once
\* by each frame callback and once more, synchronously, by every effect run
\* (two re-runs per burst at most).
C16_OnePendingStepPerCallbackAndRun ==
    /\ Cardinality(rafPending) <= 1
    /\ (fieldMounted /\ Alive) => rafPending = {cleanupOf}
    /\ stepsInFrame <= 1 + 2 * bursts

\* the effect has re-run within one display frame, after that frame's callback
C16_Witness ==
    /\ run >= 3
    /\ stepsInFrame >= 2
    /\ Cardinality(rafPending) = 1

-----------------------------------------------------------------------------
(* Claims about the keyboard *)

\* C19 as stated: once loading is finished, a press of 'S' toggles the
\* settings panel: it opens a closed panel and closes an open one.
C19_KeySTogglesSettings ==
    [][((\E t \in Times : KeyS(t)) /\ ~hook.loading)
          => hook'.showSettings = ~hook.showSettings]_vars

\* C20 as stated: every press of 'M' flips the engine's mute flag, and the
\* toast says 'AUDIO MUTED' exactly when the engine is muted after the press.
C20_KeyMFlipsMute ==
    [][KeyM => /\ audio'.isMuted = ~audio.isMuted
               /\ (notification'.message = "AUDIO MUTED") = audio'.isMuted]_vars

-----------------------------------------------------------------------------
(* Claims about the AudioEngine's buses *)

\* the nodes (0 = the destination) fed by the audio output of node i
Feeds(i) == {o[1] : o \in {c \in graph.nodes[i].outs : c[2] = "in"}}

RECURSIVE ReachFrom(_, _, _)
\* the nodes the signal of the nodes in S reaches in at most n connections
\* when the nodes in blocked pass nothing on
ReachFrom(S, blocked, n) ==
    LET T == S \cup UNION {Feeds(i) : i \in S \ ({0} \cup blocked)}
    IN  IF n = 0 \/ T = S THEN S ELSE ReachFrom(T, blocked, n - 1)

\* the signal of node i reaches the destination with the nodes in blocked cut
ReachesOutput(i, blocked) == 0 \in ReachFrom({i}, blocked, Len(graph.nodes))

\* the one-shot oscillators of playClickSound and playHoverSound
OneShots == {i \in 1..Len(graph.nodes) :
                graph.nodes[i].kind = "osc" /\ graph.nodes[i].stopAt >= 0}

\* the drone is heard through the music bus only, every one-shot through the
\* sfx bus only
BusRouting ==
    audio.initialized =>
        /\ ReachesOutput(audio.droneOsc, {})
        /\ ~ReachesOutput(audio.droneOsc, {audio.musicGain})
        /\ \A i \in OneShots :
              /\ ReachesOutput(i, {})
              /\ ~ReachesOutput(i, {audio.sfxGain})

\* C21: the drone reaches the output through the music bus alone and every
\* click and hover one-shot through the sfx bus alone; setVolumes(m, s) heads
\* the music bus gain to m/100 and the sfx bus gain to s/100 and changes
\* nothing else: not the master gain, not isMuted, no other node.
C21_BusSeparation ==
    /\ []BusRouting
    /\ [][\A v \in VolumePairs :
            (audio.initialized /\ CallSetVolumes(v[1], v[2])) =>
                /\ Target(MusicGain') * 100 = Milli(v[1])
                /\ Target(SfxGain') * 100 = Milli(v[2])
                /\ audio' = audio
                /\ Len(graph'.nodes) = Len(graph.nodes)
                /\ \A i \in 1..Len(graph.nodes) :
                      i \notin {audio.musicGain, audio.sfxGain} =>
                          graph'.nodes[i] = graph.nodes[i]]_vars

\* a muted engine with both kinds of one-shot played, the music level at 0 and
\* the effects level at 100
C21_Witness ==
    /\ audio.initialized /\ audio.isMuted
    /\ Cardinality({graph.nodes[i].type : i \in OneShots}) = 2
    /\ Target(MusicGain) = 0
    /\ Target(SfxGain) = Milli(1)

-----------------------------------------------------------------------------
(* Claims about the particle collection *)

RECURSIVE Baseline(_)
\* the particles of the collection that are not burst particles
Baseline(ps) ==
    IF ps = <<>> THEN 0
    ELSE (IF Head(ps).tag = 0 THEN Head(ps).n ELSE 0) + Baseline(Tail(ps))

\* C22: the effect run that finds the collection empty creates exactly 60
\* particles when window.innerWidth < 768 and exactly 150 otherwise, none of
\* them a burst particle; no step on a non-empty collection adds a non-burst
\* particle.
C22_InitialPopulation ==
    [][/\ MountField =>
            /\ Total(particles') = (IF innerWidth < 768 THEN 60 ELSE 150)
            /\ Baseline(particles') = Total(particles')
       /\ particles # <<>> => Baseline(particles') <= Baseline(particles)]_vars

\* a collection populated on a narrow viewport, with the effect re-run for a
\* burst on a wide one and nothing removed yet
C22_Witness ==
    /\ run >= 2
    /\ ~lastSplice.fired
    /\ innerWidth = WideWidth
    /\ Baseline(particles) = 60
    /\ Total(particles) > 60

\* C23 as stated: the particles of every burst stay in the collection until
\* that burst's own removal timer fires, also when another burst's timer fires
\* first.
C23_BurstKeptUntilOwnTimer ==
    \A tm \in PendingSplices(Field) :
        \E i \in 1..Len(particles) :
            particles[i].tag = tm.id /\ particles[i].n = BurstSize

-----------------------------------------------------------------------------
(* Claims about the nodes of a sound effect *)

\* the nodes at ids o and o + 1 of ns are one invocation's pair: an oscillator
\* feeding only its gain node, which no other node feeds, started and given a
\* stop time after its start
PairAt(ns, o) ==
    /\ ns[o].kind = "osc" /\ ns[o + 1].kind = "gain"
    /\ ns[o].outs = {In(o + 1)}
    /\ \A j \in 1..Len(ns) :
          /\ In(o) \notin ns[j].outs
          /\ j # o => In(o + 1) \notin ns[j].outs
    /\ ns[o].started
    /\ ns[o].startAt >= 0
    /\ ns[o].stopAt > ns[o].startAt
\* new holds the nodes of old untouched, and n pairs after them
Grown(old, new, n) ==
    /\ Len(new) = Len(old) + 2 * n
    /\ SubSeq(new, 1, Len(old)) = old
    /\ \A k \in 1..n : PairAt(new, Len(old) + 2 * k - 1)

-----------------------------------------------------------------------------
(* Claims about the keyboard focus of the hook-based application *)

\* the values the settings panel shows
SettingValues(h) ==
    <<h.volume, h.effectsVolume, h.motionBlur, h.fieldOfDepth, h.deepColor,
      h.difficulty>>

\* C26 as stated: in the open settings panel one press of ArrowDown (ArrowUp)
\* moves focusIndex one step down (up), clamped to 0..9, and changes no
\* setting value, whichever element holds the focus.
C26_ArrowMovesFocusOnly ==
    [][\A key \in {"ArrowDown", "ArrowUp"}, t \in Times :
          (~hook.loading /\ hook.showSettings /\ KeyArrow(key, t))
          => /\ hook'.focusIndex =
                   IF key = "ArrowDown" THEN Min(hook.focusIndex + 1, 9)
                   ELSE Max(hook.focusIndex - 1, 0)
             /\ SettingValues(hook') = SettingValues(hook)]_vars

\* C29: focusIndex stays within 0..9 and is 0 whenever the panel has just
\* become active; focusedDiamond stays within -1..8, the next-diamond keys
\* take it from 8 to 0 and the previous-diamond keys from 0 to 8.
C29_FocusInRange ==
    /\ [](hook.focusIndex \in 0..9 /\ hook.focusedDiamond \in -1..8)
    /\ [][/\ (hook'.showSettings /\ ~hook.showSettings) => hook'.focusIndex = 0
          /\ \A key \in ArrowKeys, t \in Times :
                (~hook.loading /\ ~hook.showSettings /\ KeyArrow(key, t))
                => /\ (hook.focusedDiamond = 8 /\ key \in {"ArrowRight", "ArrowDown"})
                         => hook'.focusedDiamond = 0
                   /\ (hook.focusedDiamond = 0 /\ key \in {"ArrowLeft", "ArrowUp"})
                         => hook'.focusedDiamond = 8]_vars

\* the panel was opened again after the focus had been left on a later element
\* of it, and the focus is on the first element
C29_Witness ==
    hook.showSettings /\ hook.staleFocus > 0 /\ hook.focusIndex = 0

-----------------------------------------------------------------------------
(* Claims about the volumes of part_001's App *)

\* C28: whenever App is booted the engine is initialized, and the target most
\* recently set on the music bus gain is settings.musicVol / 100 and on the
\* sfx bus gain settings.sfxVol / 100.
C28_BusTargetsFollowSettings ==
    booted =>
        /\ audio.initialized
        /\ Target(graph.nodes[audio.musicGain].gain) = (settings.musicVol * Milli(1)) \div 100
        /\ Target(graph.nodes[audio.sfxGain].gain) = (settings.sfxVol * Milli(1)) \div 100

\* both sliders were moved off their initial 40 and 80, and the engine muted
C28_Witness ==
    /\ booted /\ audio.isMuted
    /\ settings.musicVol = 100 /\ settings.sfxVol = 0

-----------------------------------------------------------------------------
(* part_001: App's useSystemMonitor (lines 149-242) and LoadingScreen (lines
   403-418), with the loading screen of the hook-based application beside it *)

\* setStats calls of the monitor's interval, and battery events, in one run
MaxMonitorTicks == 2
MaxBatteryEvents == 1
\* Math.floor(Math.random() * 8) + 2 is 2..9: the draws tried
Jumps == {2, 9}
BatteryEvents == {"levelchange", "chargingchange"}

\* App is mounted and was not unmounted
AppAlive == monitor.mounted /\ ~monitor.cleaned
\* the LoadingScreen is rendered: App's `if (loading)` branch
LoadingShown == AppAlive /\ booted /\ loading
Displayed_Raw == loader.progress

\* Math.min(progress, 100), the percentage the LoadingScreen displays
Displayed == Min(loader.progress, 100)

\* App renders again (a setStats of useSystemMonitor): the LoadingScreen gets
\* a new onComplete, its effect is cleaned up and run again, and a new
\* interval starts; progress is kept
rerenderApp(l) == IF LoadingShown THEN [l EXCEPT !.stopped = FALSE] ELSE l

\* the page loads App: useSystemMonitor's effect calls getBattery() and
\* storage.estimate() where the browser has them and sets its interval
MountMonitor(hasBattery, hasStorage) ==
    /\ ~monitor.mounted
    /\ monitor' = [monitor EXCEPT
                     !.mounted = TRUE,
                     !.battery = IF hasBattery THEN "pending" ELSE "none",
                     !.storage = IF hasStorage THEN "pending" ELSE "none",
                     !.interval = TRUE]
    /\ UNCHANGED <<engineVars, notSystem, loader>>

\* the boot screen is clicked, in a mounted App
BootScreenClick == AppAlive /\ BootClick

\* the getBattery() promise resolves: updateBattery() and both listeners added
BatteryResolve ==
    /\ monitor.battery = "pending"
    /\ monitor' = [monitor EXCEPT
                     !.battery = "resolved",
                     !.batteryListeners = BatteryEvents,
                     !.lateUpdate = @ \/ monitor.cleaned]
    /\ loader' = rerenderApp(loader)
    /\ UNCHANGED <<engineVars, notSystem>>

\* the battery fires levelchange or chargingchange: updateBattery()
BatteryEvent(e) ==
    /\ e \in monitor.batteryListeners
    /\ monitor.events < MaxBatteryEvents
    /\ monitor' = [monitor EXCEPT !.events = @ + 1,
                                  !.lateUpdate = @ \/ monitor.cleaned]
    /\ loader' = rerenderApp(loader)
    /\ UNCHANGED <<engineVars, notSystem>>

\* the storage.estimate() promise settles: setStats when it resolved
StorageSettle(ok) ==
    /\ monitor.storage = "pending"
    /\ monitor' = [monitor EXCEPT !.storage = "settled"]
    /\ loader' = IF ok THEN rerenderApp(loader) ELSE loader
    /\ UNCHANGED <<engineVars, notSystem>>

\* the monitor's 2000 ms interval fires: setStats
MonitorTick ==
    /\ monitor.interval
    /\ monitor.ticks < MaxMonitorTicks
    /\ monitor' = [monitor EXCEPT !.ticks = @ + 1]
    /\ loader' = rerenderApp(loader)
    /\ UNCHANGED <<engineVars, notSystem>>

\* App unmounts: the effect's cleanup runs clearInterval(interval) and
\* batteryUnsub(), which removes the listeners once the promise's callback has
\* replaced the initial no-op
UnmountApp ==
    /\ AppAlive
    /\ monitor' = [monitor EXCEPT
                     !.cleaned = TRUE,
                     !.interval = FALSE,
                     !.batteryListeners = IF monitor.battery = "resolved" THEN {} ELSE @]
    /\ UNCHANGED <<engineVars, notSystem, loader>>

\* the LoadingScreen's 80 ms interval fires: setProgress's updater
LoadTick(jump) ==
    /\ LoadingShown /\ ~loader.stopped
    /\ loader' = IF loader.progress >= 100
                 THEN [loader EXCEPT !.stopped = TRUE, !.timeouts = @ + 1,
                                     !.progress = 100]
                 ELSE [loader EXCEPT !.progress = @ + jump]
    /\ UNCHANGED <<engineVars, notSystem, monitor>>

\* a setTimeout(onComplete, 500) fires: onComplete is () => setLoading(false)
LoadTimeout ==
    /\ loader.timeouts > 0
    /\ loader' = [loader EXCEPT !.timeouts = @ - 1, !.completions = @ + 1]
    /\ loading' = IF AppAlive THEN FALSE ELSE loading
    /\ UNCHANGED <<audioApi, audio, graph, now, booted, view, settings,
                   notification, burst, errors, initCalls, toggles>>
    /\ UNCHANGED <<notSystem, monitor>>

InitLoading == InitApp

NextLoading ==
    \/ /\ ~hook.mounted
       /\ \/ \E hasBattery \in BOOLEAN, hasStorage \in BOOLEAN :
                MountMonitor(hasBattery, hasStorage)
          \/ BootScreenClick
          \/ BatteryResolve
          \/ \E e \in BatteryEvents : BatteryEvent(e)
          \/ \E ok \in BOOLEAN : StorageSettle(ok)
          \/ MonitorTick
          \/ UnmountApp
          \/ \E jump \in Jumps : LoadTick(jump)
          \/ LoadTimeout
    \/ /\ ~monitor.mounted
       /\ \/ MountApp
          \/ \E big \in BOOLEAN, scan \in BOOLEAN, t \in Times : IntervalTick(big, scan, t)
          \/ CompleteTimeout
          \/ \E e \in Gestures : Gesture(e)

SpecLoading == InitLoading /\ [][NextLoading]_vars

\* the interval ticks and the completion timers fire as long as they are set
SpecLoadingFair ==
    /\ SpecLoading
    /\ WF_vars(\E jump \in Jumps : LoadTick(jump))
    /\ WF_vars(LoadTimeout)
    /\ WF_vars(\E big \in BOOLEAN, scan \in BOOLEAN, t \in Times : IntervalTick(big, scan, t))
    /\ WF_vars(CompleteTimeout)

-----------------------------------------------------------------------------
(* Claims about loading and the system monitor *)

\* C25 as stated: onComplete is invoked at most once for a LoadingScreen
\* mount, of part_001 and of the hook-based application, however the interval
\* ticks, the 500 ms timers and the parent's re-renders interleave.
C25_OnCompleteAtMostOnce ==
    loader.completions <= 1 /\ hook.completions <= 1

\* C27 as stated: once useSystemMonitor's cleanup has run, no battery listener
\* of the hook is attached and the battery has caused no state update since.
C27_NoBatteryListenerAfterCleanup ==
    monitor.cleaned => (monitor.batteryListeners = {} /\ ~monitor.lateUpdate)

\* C30 as stated, the part about progress: the progress state of a
\* LoadingScreen never decreases.
C30_ProgressNeverDecreases ==
    [][loader'.progress >= loader.progress /\ hook'.progress >= hook.progress]_vars

\* C30: the displayed percentage (Math.min(progress, 100) in part_001, the
\* progress itself in the hook-based application) never decreases and never
\* exceeds 100; onComplete is invoked only once progress has reached 100 or
\* more; and with interval ticks and timers firing fairly, a loading screen
\* that is shown leads to the App leaving the loading state (part_001: unless
\* App is unmounted first).
C30_LoadingTerminates ==
    /\ [][/\ Min(loader'.progress, 100) >= Displayed
          /\ hook'.progress >= hook.progress]_vars
    /\ [](Displayed <= 100 /\ hook.progress <= 100)
    /\ [](loader.completions > 0 => loader.progress >= 100)
    /\ [](hook.completions > 0 => hook.progress >= 100)
    /\ LoadingShown ~> (~loading \/ monitor.cleaned)
    /\ (hook.mounted /\ hook.loading) ~> ~hook.loading

\* part_001's loading has ended, the monitor having re-rendered App: progress
\* is 100, onComplete was invoked and no completion timer is left
C30_Witness ==
    /\ AppAlive /\ booted /\ ~loading
    /\ loader.completions = 1 /\ loader.timeouts = 0
    /\ loader.progress = 100 /\ monitor.ticks > 0

====
